---- MODULE Spec2Model ----
(***************************************************************************)
(* Model of feos-dft's pore profiles (adsorption/pore.rs) and planar       *)
(* interfaces (interface/mod.rs): solve orchestration, external potential  *)
(* generation, equimolar shift, relative adsorption, interfacial           *)
(* thickness, density replacement, seeding from pDGT and the symmetric     *)
(* tail interpolation.                                                     *)
(***************************************************************************)
EXTENDS Integers, Sequences, FiniteSets, TLC

VARIABLES pore, planar, ret, hist, inp

vars == <<pore, planar, ret, hist, inp>>

(***************************************************************************)
(* f64 arithmetic.  A number is a pair <<n, d>>: a reduced fraction n/d    *)
(* with d > 0, or one of the IEEE specials with d = 0: <<1,0>> = +inf,     *)
(* <<-1,0>> = -inf, <<0,0>> = NaN.  A finite number is a binary float with  *)
(* MantissaBits significant bits (f64 has 53; the exponent range is not    *)
(* bounded): every operation rounds its exact result to the nearest such   *)
(* number, ties to even.  Zero is +0.0 and NaN carries a clear sign bit,   *)
(* as f64::NAN and the results of x86 arithmetic on it do.                 *)
(***************************************************************************)
\* significant bits of the modelled floating-point format
MantissaBits == 6

Abs(x) == IF x < 0 THEN -x ELSE x

Sgn(x) == IF x < 0 THEN -1 ELSE IF x > 0 THEN 1 ELSE 0

RECURSIVE Gcd(_, _)
Gcd(a, b) == IF b = 0 THEN a ELSE Gcd(b, a % b)

Q(n, d) ==
  IF d = 0 THEN <<Sgn(n), 0>>
  ELSE LET g == Gcd(Abs(n), Abs(d))
       IN  <<(Sgn(d) * n) \div g, Abs(d) \div g>>

NaN == <<0, 0>>
PInf == <<1, 0>>
NInf == <<-1, 0>>
Zero == <<0, 1>>
One == <<1, 1>>
Half == <<1, 2>>

IsNaN(a) == a = NaN
IsFinite(a) == a[2] # 0
IsInf(a) == a[2] = 0 /\ a[1] # 0

Neg(a) == <<-a[1], a[2]>>

\* the positive fraction a/d as <<m * up, down>> with m the MantissaBits-bit
\* mantissa nearest to it (ties to even) and up/down the power of two
RECURSIVE RoundPos(_, _, _, _)
RoundPos(a, d, up, down) ==
  IF a >= d * 2^MantissaBits THEN RoundPos(a, 2 * d, 2 * up, down)
  ELSE IF a < d * 2^(MantissaBits - 1) THEN RoundPos(2 * a, d, up, 2 * down)
  ELSE LET fl == a \div d
           rem == a % d
           m == IF 2 * rem > d \/ (2 * rem = d /\ fl % 2 = 1) THEN fl + 1 ELSE fl
       IN  <<m * up, down>>

\* round-to-nearest-even of an exact result
Fl(q) ==
  IF q[2] = 0 \/ q[1] = 0 THEN q
  ELSE LET r == RoundPos(Abs(q[1]), q[2], 1, 1)
       IN  Q(Sgn(q[1]) * r[1], r[2])

Add(a, b) ==
  IF IsNaN(a) \/ IsNaN(b) THEN NaN
  ELSE IF IsInf(a) THEN (IF IsInf(b) /\ b # a THEN NaN ELSE a)
  ELSE IF IsInf(b) THEN b
  ELSE Fl(Q(a[1] * b[2] + b[1] * a[2], a[2] * b[2]))

Sub(a, b) == Add(a, Neg(b))

Mul(a, b) == Fl(Q(a[1] * b[1], a[2] * b[2]))

Inv(a) == Q(a[2], a[1])

Div(a, b) == Mul(a, Inv(b))

\* a < b, a > b, a >= b of f64: every comparison with NaN is false
Lt(a, b) ==
  /\ ~IsNaN(a)
  /\ ~IsNaN(b)
  /\ IF IsInf(a) \/ IsInf(b)
     THEN (a = NInf /\ b # NInf) \/ (b = PInf /\ a # PInf)
     ELSE a[1] * b[2] < b[1] * a[2]

Gt(a, b) == Lt(b, a)

Ge(a, b) == ~IsNaN(a) /\ ~IsNaN(b) /\ ~Lt(a, b)

\* f64::is_sign_negative
is_sign_negative(a) == a[1] < 0

\* f64::powi-like cases of f64::powf: integer exponents
RECURSIVE PowNat(_, _)
PowNat(b, e) ==
  IF e = 0 THEN One
  ELSE IF e % 2 = 0
  THEN LET h == PowNat(b, e \div 2) IN Mul(h, h)
  ELSE Mul(b, PowNat(b, e - 1))

\* Option<T>
None == <<>>
Some(v) == <<v>>
IsSome(o) == Len(o) = 1

\* EosResult<T>
Ok(v) == [tag |-> "Ok", val |-> v]
Err(e) == [tag |-> "Err", val |-> e]

\* sum of a sequence of numbers
RECURSIVE SumSeq(_)
SumSeq(s) == IF Len(s) = 0 THEN Zero ELSE Add(Head(s), SumSeq(Tail(s)))

(***************************************************************************)
(* Bounds of the model.                                                    *)
(***************************************************************************)
\* grid points of a profile
NGrid == 3
\* densities of the bounded inputs are the integers 0..MaxRho
MaxRho == 2

GridIdx == 1..NGrid

\* a row of integers as a row of f64
ToNum(r) == [k \in DOMAIN r |-> Q(r[k], 1)]

\* a (segments x grid points) array of integers as an Array2<f64>
ToNum2(a) == [i \in DOMAIN a |-> ToNum(a[i])]

\* a profile that is hi on the first j grid points and lo on the others
StepRow(j, hi, lo) == [k \in GridIdx |-> IF k <= j THEN hi ELSE lo]

(***************************************************************************)
(* DFTProfile: the parts of the profile object the two files use.          *)
(***************************************************************************)
\* Axis::new_cartesian for a domain [0, n * cell]: cell centres, edges and
\* constant integration weights
new_cartesian(n, cell) ==
  [grid    |-> [k \in 1..n |-> Mul(Q(2 * k - 1, 2), cell)],
   edges   |-> [k \in 1..(n + 1) |-> Mul(Q(k - 1, 1), cell)],
   weights |-> [k \in 1..n |-> cell]]

\* DFTProfile::integrate: the sum of the field times the integration weights
integrate(axis, f) ==
  SumSeq([k \in DOMAIN f |-> Mul(f[k], axis.weights[k])])

\* density.sum_axis(Axis(0)): the total density at every grid point
sum_axis0(density) ==
  [k \in DOMAIN density[1] |->
     SumSeq([i \in DOMAIN density |-> density[i][k]])]

\* density.shape()
shape(a) == <<Len(a), Len(a[1])>>

(***************************************************************************)
(* Inputs of the solve orchestration: what the collaborators return.       *)
(***************************************************************************)
\* the typed failures of the nonlinear solver
SolverErrors == {"NotConverged", "IterationFailed"}

\* the typed failures of the grand potential (density) evaluation
FunctionalErrors == {"WrongUnits"}

\* the densities the solver leaves in the profile (it updates them in place)
SolverDensities == {<<ToNum(StepRow(j, MaxRho, 0))>> : j \in 1..(NGrid - 1)}

\* DFTProfile::solve: success or a typed failure, with the density it leaves
SolverOutcomes ==
  [res : {Ok(<<>>)} \cup {Err(e) : e \in SolverErrors},
   density : SolverDensities]

\* DFTProfile::grand_potential: a scalar (possibly not finite) or a failure
GrandPotentialOutcomes ==
  {Ok(Q(-3, 1)), Ok(Q(1, 2)), Ok(NaN)} \cup {Err(e) : e \in FunctionalErrors}

\* DFTProfile::grand_potential_density: a field over the grid or a failure
GrandPotentialDensityOutcomes ==
  {Ok([k \in GridIdx |-> Q(-1, 1)]), Ok([k \in GridIdx |-> IF k = 1 THEN PInf ELSE Zero])}
    \cup {Err(e) : e \in FunctionalErrors}

\* bulk states of a pore, told apart by their pressure
BulkStates == {[pressure |-> One], [pressure |-> Q(2, 1)]}

\* PhaseEquilibrium of one component: vapor density v, liquid density l
Vle(v, l) ==
  [vapor  |-> [density |-> Q(v, 1), pressure |-> One, partial_density |-> <<Q(v, 1)>>],
   liquid |-> [density |-> Q(l, 1), pressure |-> One, partial_density |-> <<Q(l, 1)>>]]

\* the two-phase equilibrium of an interface
VleStates == {Vle(0, MaxRho)}

(***************************************************************************)
(* PoreProfile (adsorption/pore.rs)                                        *)
(***************************************************************************)
\* DFTProfile::volume of a 1D Cartesian profile: the sum of the weights
volume(axis) == SumSeq(axis.weights)

\* Pore1D::initialize: the PoreProfile it returns (both scalars unset)
Pore1D_initialize(bulk, density) ==
  [axis |-> new_cartesian(NGrid, One),
   bulk |-> bulk,
   density |-> density,
   grand_potential |-> None,
   interfacial_tension |-> None]

\* a solve_inplace that post-processes before it looks at the solver's answer
PoreProfile_solve_inplace_late_check(self, solved, omega_res) ==
  LET s1 == [self EXCEPT !.density = solved.density]
  IN  IF omega_res.tag = "Err"
      THEN [self |-> s1, res |-> omega_res,
            steps |-> <<"solve", "grand_potential">>]
      ELSE LET omega == omega_res.val
               s2 == [s1 EXCEPT !.grand_potential = Some(omega)]
               s3 == [s2 EXCEPT !.interfacial_tension =
                        Some(Add(omega, Mul(s2.bulk.pressure, volume(s2.axis))))]
           IN  [self |-> s3, res |-> solved.res,
                steps |-> <<"solve", "grand_potential", "interfacial_tension">>]

\* PoreProfile::solve_inplace: the profile after the call, the value
\* returned and the steps performed, in order
PoreProfile_solve_inplace(self, solved, omega_res) ==
  LET s1 == [self EXCEPT !.density = solved.density]
  IN  IF solved.res.tag = "Err"
      THEN [self |-> s1, res |-> solved.res, steps |-> <<"solve">>]
      ELSE IF omega_res.tag = "Err"
      THEN [self |-> s1, res |-> omega_res,
            steps |-> <<"solve", "grand_potential">>]
      ELSE LET omega == omega_res.val
               s2 == [s1 EXCEPT !.grand_potential = Some(omega)]
               s3 == [s2 EXCEPT !.interfacial_tension =
                        Some(Add(omega, Mul(s2.bulk.pressure, volume(s2.axis))))]
           IN  [self |-> s3, res |-> Ok(<<>>),
                steps |-> <<"solve", "grand_potential", "interfacial_tension">>]

\* an update_bulk that resets only the grand potential
PoreProfile_update_bulk_keeps_tension(self, bulk) ==
  [self EXCEPT !.bulk = bulk,
               !.grand_potential = None]

\* PoreProfile::update_bulk
PoreProfile_update_bulk(self, bulk) ==
  [self EXCEPT !.bulk = bulk,
               !.grand_potential = None,
               !.interfacial_tension = None]

(***************************************************************************)
(* PlanarInterface (interface/mod.rs)                                      *)
(***************************************************************************)
\* PlanarInterface::new, with the density the profile starts from
PlanarInterface_new(vle, n_grid, cell, m, density) ==
  [axis |-> new_cartesian(n_grid, cell),
   density |-> density,
   m |-> m,
   vle |-> vle,
   surface_tension |-> None,
   equimolar_radius |-> None]

\* PlanarInterface::solve_inplace: the interface after the call, the value
\* returned and the steps performed, in order
PlanarInterface_solve_inplace(self, solved, gpd_res) ==
  LET s1 == [self EXCEPT !.density = solved.density]
  IN  IF solved.res.tag = "Err"
      THEN [self |-> s1, res |-> solved.res, steps |-> <<"solve">>]
      ELSE IF gpd_res.tag = "Err"
      THEN [self |-> s1, res |-> gpd_res,
            steps |-> <<"solve", "grand_potential_density">>]
      ELSE LET gpd == gpd_res.val
               p == s1.vle.vapor.pressure
               s2 == [s1 EXCEPT !.surface_tension =
                        Some(integrate(s1.axis, [k \in DOMAIN gpd |-> Add(gpd[k], p)]))]
               delta_rho == Sub(s2.vle.liquid.density, s2.vle.vapor.density)
               rho == sum_axis0(s2.density)
               s3 == [s2 EXCEPT !.equimolar_radius =
                        Some(Div(integrate(s2.axis,
                                   [k \in DOMAIN rho |-> Sub(rho[k], s2.vle.vapor.density)]),
                                 delta_rho))]
           IN  [self |-> s3, res |-> Ok(<<>>),
                steps |-> <<"solve", "grand_potential_density",
                            "surface_tension", "equimolar_radius">>]

(***************************************************************************)
(* The solve orchestration as a state machine: a pore profile and a planar *)
(* interface, each driven by any sequence of its calls.                    *)
(***************************************************************************)
\* the record of the last call: operation, the solver's answer, the value
\* returned, the steps performed and the optional scalars before the call
NoCall == [op |-> "none", solver |-> Ok(<<>>), res |-> Ok(<<>>), steps |-> <<>>,
           pre |-> <<None, None>>]

InitSolve ==
  /\ inp = <<>>
  /\ \E b \in BulkStates, d \in SolverDensities :
        pore = Pore1D_initialize(b, d)
  /\ \E v \in VleStates, d \in SolverDensities :
        planar = PlanarInterface_new(v, NGrid, One, <<One>>, d)
  /\ ret = NoCall
  /\ hist = [pore_solved |-> FALSE, planar_solved |-> FALSE]

PoreSolveInplace ==
  \E solved \in SolverOutcomes, omega_res \in GrandPotentialOutcomes :
    LET r == PoreProfile_solve_inplace(pore, solved, omega_res)
    IN  /\ pore' = r.self
        /\ ret' = [op |-> "PoreProfile::solve_inplace", solver |-> solved.res,
                   res |-> r.res, steps |-> r.steps,
                   pre |-> <<pore.grand_potential, pore.interfacial_tension>>]
        /\ hist' = [hist EXCEPT !.pore_solved = @ \/ r.res.tag = "Ok"]
        /\ UNCHANGED <<planar, inp>>

PoreUpdateBulk ==
  \E b \in BulkStates :
    /\ pore' = PoreProfile_update_bulk(pore, b)
    /\ ret' = [NoCall EXCEPT !.op = "PoreProfile::update_bulk",
                             !.pre = <<pore.grand_potential, pore.interfacial_tension>>]
    /\ UNCHANGED <<planar, hist, inp>>

PlanarSolveInplace ==
  \E solved \in SolverOutcomes, gpd_res \in GrandPotentialDensityOutcomes :
    LET r == PlanarInterface_solve_inplace(planar, solved, gpd_res)
    IN  /\ planar' = r.self
        /\ ret' = [op |-> "PlanarInterface::solve_inplace", solver |-> solved.res,
                   res |-> r.res, steps |-> r.steps,
                   pre |-> <<planar.surface_tension, planar.equimolar_radius>>]
        /\ hist' = [hist EXCEPT !.planar_solved = @ \/ r.res.tag = "Ok"]
        /\ UNCHANGED <<pore, inp>>

NextSolve ==
  \/ PoreSolveInplace
  \/ PoreUpdateBulk
  \/ PlanarSolveInplace

SpecSolve == InitSolve /\ [][NextSolve]_vars

(***************************************************************************)
(* Interfacial analysis (interface/mod.rs): the bounded profiles           *)
(***************************************************************************)
\* shift_equimolar_inplace calls a run makes (each moves the grid)
MaxShifts == 2

\* every profile of one segment over the grid
Rows == [GridIdx -> 0..MaxRho]

\* the profiles that fall or rise monotonically from one bulk to the other
MonotoneRows ==
  {r \in Rows : \/ \A k \in 1..(NGrid - 1) : r[k] >= r[k + 1]
                \/ \A k \in 1..(NGrid - 1) : r[k] <= r[k + 1]}

\* density fields of one segment (any profile) or two segments (monotone)
DensityInputs ==
  {ToNum2(<<r>>) : r \in Rows}
    \cup {ToNum2(<<r1, r2>>) : r1 \in MonotoneRows, r2 \in MonotoneRows}

\* HelmholtzEnergyFunctional::m: the multiplicity of every segment
SegmentM(n) == [i \in 1..n |-> Q(i, 1)]

\* an interface holding a given density field
InterfaceWith(density) ==
  PlanarInterface_new(CHOOSE v \in VleStates : TRUE, NGrid, One,
                      SegmentM(Len(density)), density)

\* a panic (assert_eq!, panic!, expect, index out of bounds)
Panic(msg) == [tag |-> "Panic", val |-> msg]

\* PlanarInterface::shift_equimolar_inplace
PlanarInterface_shift_equimolar_inplace(self) ==
  LET s == shape(self.density)
      m == self.m
      rho_l == SumSeq([i \in 1..s[1] |-> Mul(self.density[i][1], m[i])])
      rho_v == SumSeq([i \in 1..s[1] |-> Mul(self.density[i][s[2]], m[i])])
      rho == [k \in 1..s[2] |->
                SumSeq([i \in 1..s[1] |-> Mul(self.density[i][k], m[i])])]
      x == [k \in 1..s[2] |-> Div(Sub(rho[k], rho_v), Sub(rho_l, rho_v))]
      ze == Add(self.axis.edges[1], integrate(self.axis, x))
  IN  [self EXCEPT !.axis.grid = [k \in DOMAIN @ |-> Sub(@[k], ze)]]

\* PlanarInterface::relative_adsorption
PlanarInterface_relative_adsorption(self) ==
  LET s == shape(self.density)
      rho_l == [i \in 1..s[1] |-> self.density[i][1]]
      rho_v == [i \in 1..s[1] |-> self.density[i][s[2]]]
      dev(i) == [k \in 1..s[2] |->
                   Div(Sub(self.density[i][k], rho_l[i]), Sub(rho_l[i], rho_v[i]))]
      gamma == [i \in 1..s[1] |-> [j \in 1..s[1] |->
                  IF i = j THEN Zero
                  ELSE Mul(Neg(Sub(rho_l[i], rho_v[i])),
                           integrate(self.axis,
                             [k \in 1..s[2] |-> Sub(dev(j)[k], dev(i)[k])]))]]
  IN  Ok(gamma)

(***************************************************************************)
(* The analysis of one interface: shifts and relative adsorptions of a     *)
(* profile whose density no call changes.                                  *)
(***************************************************************************)
InitAnalysis ==
  /\ inp = <<>>
  /\ pore = Pore1D_initialize(CHOOSE b \in BulkStates : TRUE,
                              CHOOSE d \in SolverDensities : TRUE)
  /\ \E d \in DensityInputs : planar = InterfaceWith(d)
  /\ ret = [op |-> "none", res |-> Ok(<<>>)]
  /\ hist = [shifts |-> 0, grid_before |-> <<>>]

ShiftEquimolarInplace ==
  /\ hist.shifts < MaxShifts
  /\ planar' = PlanarInterface_shift_equimolar_inplace(planar)
  /\ ret' = [op |-> "shift_equimolar_inplace", res |-> Ok(<<>>)]
  /\ hist' = [shifts |-> hist.shifts + 1, grid_before |-> planar.axis.grid]
  /\ UNCHANGED <<pore, inp>>

RelativeAdsorption ==
  /\ ret' = [op |-> "relative_adsorption",
             res |-> PlanarInterface_relative_adsorption(planar)]
  /\ UNCHANGED <<pore, planar, hist, inp>>

NextAnalysis ==
  \/ ShiftEquimolarInplace
  \/ RelativeAdsorption

SpecAnalysis == InitAnalysis /\ [][NextAnalysis]_vars

(***************************************************************************)
(* set_density_inplace (interface/mod.rs)                                  *)
(***************************************************************************)
\* the rows of n grid points whose densities are 0 or MaxRho
InputRows(n) == [1..n -> {0, MaxRho}]

\* the liquid-vapor mirror image of a row
Mirror(r) == [k \in DOMAIN r |-> MaxRho - r[k]]

\* the arrays handed to set_density_inplace: one or two segments, over the
\* profile's grid or over a grid one point shorter
SetInputs ==
  UNION {{ToNum2(<<r>>) : r \in InputRows(n)}
           \cup {ToNum2(<<r, Mirror(r)>>) : r \in InputRows(n)} :
         n \in {NGrid - 1, NGrid}}

\* PlanarInterface::set_density_scale
PlanarInterface_set_density_scale(self, init) ==
  IF shape(self.density) # shape(init)
  THEN [self |-> self, res |-> Panic("assertion failed: left == right")]
  ELSE LET n_grid == shape(self.density)[2]
           drho_init == [i \in DOMAIN init |-> Sub(init[i][1], init[i][n_grid])]
           rho_init_0 == [i \in DOMAIN init |-> init[i][n_grid]]
           drho == [i \in DOMAIN init |->
                      Sub(self.density[i][1], self.density[i][n_grid])]
           rho_0 == [i \in DOMAIN init |-> self.density[i][n_grid]]
       IN  [self |-> [self EXCEPT !.density =
                        [i \in DOMAIN init |-> [j \in 1..n_grid |->
                           Add(Mul(Div(Sub(init[i][j], rho_init_0[i]), drho_init[i]),
                                   drho[i]),
                               rho_0[i])]]],
            res |-> Ok(<<>>)]

\* a set_density_inplace that replaces the density whatever its shape
PlanarInterface_set_density_inplace_unchecked(self, init, scale) ==
  IF scale
  THEN PlanarInterface_set_density_scale(self, init)
  ELSE [self |-> [self EXCEPT !.density = init], res |-> Ok(<<>>)]

\* PlanarInterface::set_density_inplace
PlanarInterface_set_density_inplace(self, init, scale) ==
  IF scale
  THEN PlanarInterface_set_density_scale(self, init)
  ELSE IF shape(self.density) # shape(init)
       THEN [self |-> self, res |-> Panic("assertion failed: left == right")]
       ELSE [self |-> [self EXCEPT !.density = init], res |-> Ok(<<>>)]

(***************************************************************************)
(* One interface whose density is replaced again and again.                *)
(***************************************************************************)
InitSetDensity ==
  /\ inp = <<>>
  /\ pore = Pore1D_initialize(CHOOSE b \in BulkStates : TRUE,
                              CHOOSE d \in SolverDensities : TRUE)
  /\ \E d \in {x \in SetInputs : shape(x)[2] = NGrid} : planar = InterfaceWith(d)
  /\ ret = [op |-> "none", init |-> <<>>, scale |-> FALSE, res |-> Ok(<<>>),
            pre |-> <<>>]
  /\ hist = [calls |-> 0]

SetDensityInplace ==
  \E init \in SetInputs, scale \in BOOLEAN :
    LET r == PlanarInterface_set_density_inplace(planar, init, scale)
    IN  /\ planar' = r.self
        /\ ret' = [op |-> "set_density_inplace", init |-> init, scale |-> scale,
                   res |-> r.res, pre |-> planar.density]
        /\ UNCHANGED <<pore, hist, inp>>

NextSetDensity == SetDensityInplace

SpecSetDensity == InitSetDensity /\ [][NextSetDensity]_vars

(***************************************************************************)
(* interfacial_thickness (interface/mod.rs)                                *)
(***************************************************************************)
\* the fractions handed to interfacial_thickness (numbers; no NaN, no -0.0)
Fractions == {Q(-1, 2), Zero, Q(1, 4), Q(3, 4), One, Q(3, 2)}

\* rho.iter().enumerate().find(|(_, &x)| (x - bound).is_sign_negative()):
\* the first (1-based) index found, or 0 when there is none
RECURSIVE FindBelowFrom(_, _, _)
FindBelowFrom(rho, bound, k) ==
  IF k > Len(rho) THEN 0
  ELSE IF is_sign_negative(Sub(rho[k], bound)) THEN k
  ELSE FindBelowFrom(rho, bound, k + 1)

FindBelow(rho, bound) == FindBelowFrom(rho, bound, 1)

\* limits taken in the order given, first as upper and second as lower
OrderLimits_as_given(limits) == <<limits[1], limits[2]>>

\* the two limits as the code orders them: <<limit_upper, limit_lower>>
OrderLimits(limits) ==
  IF Gt(limits[1], limits[2]) THEN <<limits[1], limits[2]>>
  ELSE <<limits[2], limits[1]>>

\* the range check of one limit
LimitOutOfRange(l) == Ge(l, One) \/ is_sign_negative(l)

\* PlanarInterface::interfacial_thickness, with the limits already ordered
ThicknessOrdered(self, limit_upper, limit_lower) ==
  LET s == shape(self.density)
      rho == sum_axis0(self.density)
      z == self.axis.grid
      dz == Sub(z[2], z[1])
  IN
  IF LimitOutOfRange(limit_upper)
  THEN Panic("Upper limit 'l' of interface thickness needs to satisfy 0 < l < 1.")
  ELSE IF LimitOutOfRange(limit_lower)
  THEN Panic("Lower limit 'l' of interface thickness needs to satisfy 0 < l < 1.")
  ELSE
  LET rho_l == IF Gt(rho[1], rho[s[2]]) THEN rho[1] ELSE rho[s[2]]
      rho_v == IF Gt(rho[1], rho[s[2]]) THEN rho[s[2]] ELSE rho[1]
      rho_upper == Add(rho_v, Mul(limit_upper, Sub(rho_l, rho_v)))
      rho_lower == Add(rho_v, Mul(limit_lower, Sub(rho_l, rho_v)))
      index_upper_plus == FindBelow(rho, rho_upper)
      index_lower_plus == FindBelow(rho, rho_lower)
      \* z[index - 1] + (bound - rho[index - 1]) / (rho[index] - rho[index - 1]) * dz
      cross(bound, idx) ==
        Add(z[idx - 1],
            Mul(Div(Sub(bound, rho[idx - 1]), Sub(rho[idx], rho[idx - 1])), dz))
  IN
  IF index_upper_plus = 0 THEN Panic("Could not find rho_upper value!")
  ELSE IF index_lower_plus = 0 THEN Panic("Could not find rho_lower value!")
  \* the first grid point was found: index - 1 underflows (debug build) or
  \* wraps to an index out of bounds (release build); both panic
  ELSE IF index_upper_plus = 1 \/ index_lower_plus = 1
  THEN Panic("index out of bounds")
  ELSE Ok(Sub(cross(rho_lower, index_lower_plus), cross(rho_upper, index_upper_plus)))

\* PlanarInterface::interfacial_thickness
PlanarInterface_interfacial_thickness(self, limits) ==
  ThicknessOrdered(self, OrderLimits(limits)[1], OrderLimits(limits)[2])

(***************************************************************************)
(* One interfacial_thickness call on a profile drawn from the bounded      *)
(* density fields (the call changes nothing, so one call per run).         *)
(***************************************************************************)
InitThickness ==
  /\ inp = <<>>
  /\ pore = Pore1D_initialize(CHOOSE b \in BulkStates : TRUE,
                              CHOOSE d \in SolverDensities : TRUE)
  /\ \E d \in DensityInputs : planar = InterfaceWith(d)
  /\ ret = [op |-> "none", limits |-> <<>>, res |-> Ok(<<>>)]
  /\ hist = [calls |-> 0]

InterfacialThickness ==
  /\ ret.op = "none"
  /\ \E a \in Fractions, b \in Fractions :
       ret' = [op |-> "interfacial_thickness", limits |-> <<a, b>>,
               res |-> PlanarInterface_interfacial_thickness(planar, <<a, b>>)]
  /\ UNCHANGED <<pore, planar, hist, inp>>

NextThickness == InterfacialThickness

SpecThickness == InitThickness /\ [][NextThickness]_vars

(***************************************************************************)
(* external_potential_1d (adsorption/pore.rs)                              *)
(***************************************************************************)
\* grid points of the axis the potential is computed on
NGridPot == 3

\* profile::MAX_POTENTIAL, the cutoff used when the pore names none
MAX_POTENTIAL == 50

Geometries == {"Cartesian", "Cylindrical", "Spherical"}

\* the raw values the external-potential collaborator may produce at a point
RawVals == {NaN, NInf, PInf, Q(-4, 1), Q(120, 1)}

PoreWidths == {One, Q(2, 1)}
Temperatures == {One, Q(2, 1)}
Cutoffs == {None, Some(Q(10, 1))}

\* the axis of a pore: a Cartesian axis is symmetric about zero, a polar or
\* spherical one starts at the centre; cells of width one
PoreAxis(geometry, n) ==
  [geometry |-> geometry,
   grid |-> IF geometry = "Cartesian"
            THEN [k \in 1..n |-> Q(2 * k - (n + 1), 2)]
            ELSE [k \in 1..n |-> Q(2 * k - 1, 2)]]

\* 0.5 * pore_width for a slit, pore_width for a cylinder or a sphere
EffectivePoreSize(geometry, pore_width) ==
  IF geometry = "Cartesian" THEN Mul(Half, pore_width) ELSE pore_width

\* the distances the collaborator is evaluated at
Distances(geometry, pore_width, axis) ==
  LET e == EffectivePoreSize(geometry, pore_width)
  IN  IF geometry = "Cartesian"
      THEN {Add(e, axis.grid[k]) : k \in DOMAIN axis.grid}
             \cup {Sub(e, axis.grid[k]) : k \in DOMAIN axis.grid}
      ELSE {axis.grid[k] : k \in DOMAIN axis.grid}

\* ExternalPotential::calculate_*_potential: for every segment the value of
\* the wall potential at every distance, scaled by the segment's energy
calculate_potential(potential, r) ==
  [i \in DOMAIN potential.epsilon |->
     [k \in DOMAIN r |-> Mul(potential.epsilon[i], potential.wall[r[k]])]]

\* external_potential_1d
external_potential_1d(pore_width, temperature, potential, axis, potential_cutoff) ==
  LET cutoff == IF IsSome(potential_cutoff) THEN potential_cutoff[1]
                ELSE Q(MAX_POTENTIAL, 1)
      effective_pore_size == EffectivePoreSize(axis.geometry, pore_width)
      t == temperature
      n == Len(axis.grid)
      raw == IF axis.geometry = "Cartesian"
             THEN LET a == calculate_potential(potential,
                             [k \in 1..n |-> Add(effective_pore_size, axis.grid[k])])
                      b == calculate_potential(potential,
                             [k \in 1..n |-> Sub(effective_pore_size, axis.grid[k])])
                  IN  [i \in DOMAIN a |-> [k \in 1..n |-> Add(a[i][k], b[i][k])]]
             ELSE calculate_potential(potential, axis.grid)
      scaled == [i \in DOMAIN raw |-> [k \in 1..n |-> Div(raw[i][k], t)]]
      filled == [i \in DOMAIN raw |-> [k \in 1..n |->
                   IF Gt(axis.grid[k], effective_pore_size) THEN cutoff
                   ELSE scaled[i][k]]]
      clamped == [i \in DOMAIN raw |-> [k \in 1..n |->
                    IF Gt(filled[i][k], cutoff) THEN cutoff ELSE filled[i][k]]]
  IN  Ok(clamped)

(***************************************************************************)
(* One external_potential_1d call on inputs drawn from the bounded sets.   *)
(***************************************************************************)
InitPotential ==
  /\ pore = Pore1D_initialize(CHOOSE b \in BulkStates : TRUE,
                              CHOOSE d \in SolverDensities : TRUE)
  /\ planar = InterfaceWith(CHOOSE d \in SolverDensities : TRUE)
  /\ ret = [op |-> "none", res |-> Ok(<<>>)]
  /\ hist = [calls |-> 0]
  /\ \E g \in Geometries, w \in PoreWidths, t \in Temperatures, c \in Cutoffs :
       \E wall \in [Distances(g, w, PoreAxis(g, NGridPot)) -> RawVals] :
         inp = [geometry |-> g, pore_size |-> w, temperature |-> t,
                potential_cutoff |-> c, axis |-> PoreAxis(g, NGridPot),
                potential |-> [wall |-> wall, epsilon |-> <<One, Q(2, 1)>>]]

ExternalPotential1D ==
  /\ ret.op = "none"
  /\ ret' = [op |-> "external_potential_1d",
             res |-> external_potential_1d(inp.pore_size, inp.temperature,
                       inp.potential, inp.axis, inp.potential_cutoff)]
  /\ UNCHANGED <<pore, planar, hist, inp>>

NextPotential == ExternalPotential1D

SpecPotential == InitPotential /\ [][NextPotential]_vars

(***************************************************************************)
(* interp and interp_symmetric (interface/mod.rs)                          *)
(***************************************************************************)
\* samples of the coarse (pDGT) profile
NCoarse == 3
\* grid points of the fine grid
NFine == 4

\* f64::powf where its value is a rational or an IEEE special: a zero
\* exponent, a base of one, NaN, integer exponents, and the non-integer
\* powers of 0, of the infinities and of negative numbers.  The bounded
\* inputs keep every other exponent an integer.
Powf(b, e) ==
  IF e = Zero \/ b = One THEN One
  ELSE IF IsNaN(b) \/ IsNaN(e) THEN NaN
  ELSE IF IsFinite(e) /\ (b = Zero \/ IsInf(b))
  THEN (IF IsInf(b) = (e[1] > 0)
        THEN (IF b = NInf /\ e[2] = 1 /\ e[1] % 2 = 1 THEN NInf ELSE PInf)
        ELSE Zero)
  ELSE IF e[2] = 1
  THEN (IF e[1] > 0 THEN PowNat(b, e[1]) ELSE Div(One, PowNat(b, -e[1])))
  ELSE IF IsFinite(e) /\ IsFinite(b) /\ b[1] < 0 THEN NaN
  ELSE CHOOSE v \in {} : TRUE

\* s![..;-1]: a sequence back to front
Reverse(x) == [k \in DOMAIN x |-> x[Len(x) + 1 - k]]

\* the while loop of interp: k advanced past every sample left of x
RECURSIVE AdvanceK(_, _, _)
AdvanceK(x_rev, x, k) ==
  IF k < Len(x_rev) /\ Gt(x, x_rev[k + 1]) THEN AdvanceK(x_rev, x, k + 1) ELSE k

\* the value interp assigns to column i of y_new for one segment, k being
\* the (0-based) index the while loop stopped at
InterpColumn(x_rev, y, x, y_left, y_right, k) ==
  LET n == Len(x_rev)
      \* asymptote + (y[a] - asymptote) * ((y[b] - asymptote) / (y[a] - asymptote))
      \*                                    .powf((x - x[a]) / (x[b] - x[a]))
      tail(asym, a, b) ==
        Add(asym,
            Mul(Sub(y[a], asym),
                Powf(Div(Sub(y[b], asym), Sub(y[a], asym)),
                     Div(Sub(x, x_rev[a]), Sub(x_rev[b], x_rev[a])))))
  IN  IF k = 0 THEN tail(y_left, 1, 2)
      ELSE IF k = n THEN tail(y_right, n - 1, n)
      ELSE Add(y[k],
               Mul(Div(Sub(x, x_rev[k]), Sub(x_rev[k + 1], x_rev[k])),
                   Sub(y[k + 1], y[k])))

\* the loop over x_new: k is kept from one column to the next
RECURSIVE InterpRow(_, _, _, _, _, _, _)
InterpRow(x_rev, y, x_new, y_left, y_right, i, k) ==
  IF i > Len(x_new) THEN <<>>
  ELSE LET k1 == AdvanceK(x_rev, x_new[i], k)
       IN  <<InterpColumn(x_rev, y, x_new[i], y_left, y_right, k1)>>
             \o InterpRow(x_rev, y, x_new, y_left, y_right, i + 1, k1)

\* interp
interp(x_old, y_old, x_new, y_left, y_right, reverse) ==
  LET x_rev == IF reverse THEN [k \in DOMAIN x_old |-> Neg(Reverse(x_old)[k])]
               ELSE x_old
      y_rev == IF reverse THEN [i \in DOMAIN y_old |-> Reverse(y_old[i])]
               ELSE y_old
  IN  [i \in DOMAIN y_rev |->
         InterpRow(x_rev, y_rev[i], x_new, y_left[i], y_right[i], 1, 0)]

\* interp_symmetric.  reduced_density and the two shifted grids are arrays
\* computed once, before the two interp passes read them.
interp_symmetric(vle_pdgt, z_pdgt, rho_pdgt, vle, z, radius) ==
  LET segments == Len(vle_pdgt.vapor.partial_density)
      plus == [i \in 1..segments |-> Half]
      minus == [i \in 1..segments |-> Neg(Half)]
      \* the sum of the two passes, shifted by one for a negative radius and
      \* scaled back to a density
      combined(left, right) ==
        LET sum == [i \in DOMAIN left |-> [j \in DOMAIN left[i] |->
                      Add(left[i][j], right[i][j])]]
            shifted == IF Lt(radius, Zero)
                       THEN [i \in DOMAIN sum |->
                               [j \in DOMAIN sum[i] |-> Add(sum[i][j], One)]]
                       ELSE sum
        IN  [i \in DOMAIN shifted |-> [j \in DOMAIN shifted[i] |->
               Add(Mul(shifted[i][j],
                       Sub(vle.liquid.partial_density[i], vle.vapor.partial_density[i])),
                   vle.vapor.partial_density[i])]]
  IN  CHOOSE out \in
        {Ok(combined(interp(z_pdgt, reduced_density, z_left, plus, minus, FALSE),
                     interp(z_pdgt, reduced_density, z_right, minus, plus, TRUE))) :
           reduced_density \in
             {[i \in DOMAIN rho_pdgt |-> [j \in DOMAIN rho_pdgt[i] |->
                 Sub(Div(Sub(rho_pdgt[i][j], vle_pdgt.vapor.partial_density[i]),
                         Sub(vle_pdgt.liquid.partial_density[i],
                             vle_pdgt.vapor.partial_density[i])),
                     Half)]]},
           z_left \in {[k \in DOMAIN z |-> Sub(z[k], radius)]},
           z_right \in {[k \in DOMAIN z |-> Add(z[k], radius)]}} : TRUE

(***************************************************************************)
(* One interpolation of a coarse profile drawn from the bounded sets.      *)
(***************************************************************************)
\* equilibria of one component: vapor density below liquid density
InterpVle ==
  {Vle(p[1], p[2]) : p \in {q \in (0..MaxRho) \X (0..MaxRho) : q[1] < q[2]}}

\* the coarse coordinates: unit spacing, on the half-integers as the cell
\* centres of the fine grid are
CoarseGrid == [k \in 1..NCoarse |-> Q(2 * k - 3, 2)]

\* the coarse profiles of one segment
CoarseProfiles == {ToNum2(<<r>>) : r \in [1..NCoarse -> 0..MaxRho]}

\* the offsets of the two tails, of either sign (whole cells, so that the
\* fine points lie a whole number of coarse cells from the coarse samples)
Radii == {Q(r, 1) : r \in -3..3}

InitInterp ==
  /\ pore = Pore1D_initialize(CHOOSE b \in BulkStates : TRUE,
                              CHOOSE d \in SolverDensities : TRUE)
  /\ planar = InterfaceWith(CHOOSE d \in SolverDensities : TRUE)
  /\ ret = [op |-> "none", res |-> Ok(<<>>)]
  /\ hist = [calls |-> 0]
  /\ \E v \in InterpVle, rho \in CoarseProfiles, r \in Radii :
       inp = [vle |-> v, z_pdgt |-> CoarseGrid, rho_pdgt |-> rho,
              z |-> new_cartesian(NFine, One).grid, radius |-> r]

InterpSymmetric ==
  /\ ret.op = "none"
  /\ ret' = [op |-> "interp_symmetric",
             res |-> interp_symmetric(inp.vle, inp.z_pdgt, inp.rho_pdgt,
                                      inp.vle, inp.z, inp.radius)]
  /\ UNCHANGED <<pore, planar, hist, inp>>

NextInterp == InterpSymmetric

SpecInterp == InitInterp /\ [][NextInterp]_vars

(***************************************************************************)
(* One call of interp itself, queried at the coordinates of its samples.   *)
(***************************************************************************)
\* reduced densities of the coarse samples (order parameter in [-1/2, 1/2])
SampleValues == {Neg(Half), Zero, Q(33, 256), Half}

\* the coarse tables: one segment, or two with the second one back to front
SampleTables ==
  {<<r>> : r \in [1..NCoarse -> SampleValues]}
    \cup {<<r, Reverse(r)>> : r \in [1..NCoarse -> SampleValues]}

\* the asymptotes interp_symmetric hands over: left, right
Asymptotes == {<<Half, Neg(Half)>>, <<Neg(Half), Half>>}

\* the sample coordinates as interp sees them: reflected when reverse
TableCoordinates(x_old, reverse) ==
  IF reverse THEN [k \in DOMAIN x_old |-> Neg(Reverse(x_old)[k])] ELSE x_old

\* the sample values as interp sees them: back to front when reverse
TableValues(y_old, reverse) ==
  IF reverse THEN [i \in DOMAIN y_old |-> Reverse(y_old[i])] ELSE y_old

\* ascending query grids made of sample coordinates: all of them, or one
SampleQueries(x_rev) == {x_rev} \cup {<<x_rev[k]>> : k \in DOMAIN x_rev}

InitInterpPoint ==
  /\ pore = Pore1D_initialize(CHOOSE b \in BulkStates : TRUE,
                              CHOOSE d \in SolverDensities : TRUE)
  /\ planar = InterfaceWith(CHOOSE d \in SolverDensities : TRUE)
  /\ ret = [op |-> "none", res |-> <<>>]
  /\ hist = [calls |-> 0]
  /\ \E y \in SampleTables, a \in Asymptotes, reverse \in BOOLEAN :
       \E x \in SampleQueries(TableCoordinates(CoarseGrid, reverse)) :
         inp = [x_old |-> CoarseGrid, y_old |-> y, x_new |-> x,
                y_left |-> [i \in DOMAIN y |-> a[1]],
                y_right |-> [i \in DOMAIN y |-> a[2]],
                reverse |-> reverse]

Interp ==
  /\ ret.op = "none"
  /\ ret' = [op |-> "interp",
             res |-> interp(inp.x_old, inp.y_old, inp.x_new, inp.y_left,
                            inp.y_right, inp.reverse)]
  /\ UNCHANGED <<pore, planar, hist, inp>>

NextInterpPoint == Interp

SpecInterpPoint == InitInterpPoint /\ [][NextInterpPoint]_vars

(***************************************************************************)
(* PlanarInterface::from_pdgt (interface/mod.rs)                           *)
(***************************************************************************)
RELATIVE_WIDTH == Q(6, 1)

MIN_WIDTH == Q(100, 1)

\* f64::MIN_POSITIVE, the smallest normal number (2^-1022 in f64): a power
\* of two below every other magnitude of the model
MIN_POSITIVE == Q(1, 2^20)

\* a subnormal number
Subnormal == Q(1, 2^21)

\* f64::is_normal with the finiteness test only
is_normal_finite_only(x) == IsFinite(x)

\* f64::is_normal: neither zero, infinite, subnormal nor NaN
is_normal(x) == IsFinite(x) /\ Ge(Q(Abs(x[1]), x[2]), MIN_POSITIVE)

\* EosError::InvalidState(function, variable, value)
InvalidState(function, variable, value) ==
  Err([kind |-> "InvalidState", function |-> function, variable |-> variable,
       value |-> value])

\* the tensions the pDGT model may come back with
Tensions == {Q(1, 2), Q(-3, 1), Zero, Subnormal, Neg(Subnormal), NaN, PInf, NInf}

\* the coarse density profiles of one component: from the liquid density at
\* the first sample to the vapor density at the last one, or one of the two
\* bulk densities at every sample
PdgtProfiles ==
  {r \in [1..NCoarse -> 0..MaxRho] :
     \/ r[1] = MaxRho /\ r[NCoarse] = 0
     \/ \A k \in 1..NCoarse : r[k] \in {0, MaxRho}}

\* dft.solve_pdgt: a failure, or the coarse profile, the tension (with
\* whether it reduces to a number of surface-tension units), and the
\* coordinates and the width written through the two out-parameters
PdgtOutcomes ==
  {Err(e) : e \in SolverErrors} \cup
  {Ok([rho_pdgt |-> ToNum2(<<r>>), gamma_pdgt |-> g, gamma_units |-> u,
       z_pdgt |-> CoarseGrid, w_pdgt |-> w]) :
     r \in PdgtProfiles, g \in Tensions, u \in BOOLEAN,
     w \in {One, Q(32, 1)}}

\* the failures of the steps after the check: Self::new and
\* DFTSpecifications::total_moles_from_profile
LateOutcomes == {Ok(<<>>)} \cup {Err(e) : e \in FunctionalErrors}

\* DFTSpecifications::total_moles_from_profile of an interface
total_moles_from_profile(p) ==
  [kind |-> "TotalMoles",
   moles |-> [i \in DOMAIN p.density |-> integrate(p.axis, p.density[i])]]

\* the end of from_pdgt, from the interpolation on: profile is what
\* Self::new built and r is half the length of its grid
from_pdgt_seed(vle, pdgt, profile, r, new_res, spec_res) ==
  LET rho == interp_symmetric(vle, pdgt.val.z_pdgt, pdgt.val.rho_pdgt,
                              profile.vle, profile.axis.grid, r)
      seeded == [profile EXCEPT !.density = rho.val]
      early == <<"solve_pdgt", "to_reduced", "is_normal", "new">>
  IN  IF new_res.tag = "Err" THEN [res |-> new_res, steps |-> early]
      ELSE IF spec_res.tag = "Err"
      THEN [res |-> spec_res,
            steps |-> early \o <<"interp_symmetric", "total_moles_from_profile">>]
      ELSE [res |-> Ok(seeded @@ [specification |-> total_moles_from_profile(seeded)]),
            steps |-> early \o <<"interp_symmetric", "total_moles_from_profile">>]

\* PlanarInterface::from_pdgt: the value returned and the steps performed,
\* in order.  components is dft.component_index().len(); pdgt, new_res and
\* spec_res are what solve_pdgt, Self::new and total_moles_from_profile
\* come back with.  The grid and r are values computed once, before the
\* interpolation reads them.
PlanarInterface_from_pdgt(vle, n_grid, components, pdgt, new_res, spec_res) ==
  IF components # 1
  THEN [res |-> Panic("Initialization from pDGT not possible for segment DFT or mixtures"),
        steps |-> <<>>]
  ELSE IF pdgt.tag = "Err"
  THEN [res |-> pdgt, steps |-> <<"solve_pdgt">>]
  ELSE IF ~pdgt.val.gamma_units
  THEN [res |-> Err("WrongUnits"), steps |-> <<"solve_pdgt", "to_reduced">>]
  ELSE IF ~is_normal(pdgt.val.gamma_pdgt)
  THEN [res |-> InvalidState("DFTProfile::from_pdgt", "gamma_pdgt",
                             pdgt.val.gamma_pdgt),
        steps |-> <<"solve_pdgt", "to_reduced", "is_normal">>]
  ELSE
  LET w6 == Mul(pdgt.val.w_pdgt, RELATIVE_WIDTH)
      l_grid == IF Gt(w6, MIN_WIDTH) THEN w6 ELSE MIN_WIDTH
  IN  CHOOSE out \in
        {from_pdgt_seed(vle, pdgt, profile, r, new_res, spec_res) :
           profile \in {PlanarInterface_new(vle, n_grid, Div(l_grid, Q(n_grid, 1)),
                                            SegmentM(1),
                                            <<[k \in 1..n_grid |-> vle.vapor.density]>>)},
           r \in {Mul(l_grid, Half)}} : TRUE

(***************************************************************************)
(* One interface seeded from pDGT: planar becomes the interface that was    *)
(* built, and stays as it was when none was.                               *)
(***************************************************************************)
InitPdgt ==
  /\ inp = <<>>
  /\ pore = Pore1D_initialize(CHOOSE b \in BulkStates : TRUE,
                              CHOOSE d \in SolverDensities : TRUE)
  /\ planar = InterfaceWith(CHOOSE d \in SolverDensities : TRUE)
  /\ ret = [op |-> "none", components |-> 1, pdgt |-> Err("none"),
            res |-> Ok(<<>>), steps |-> <<>>, pre |-> <<>>]
  /\ hist = [calls |-> 0]

FromPdgt ==
  \E vle \in VleStates, components \in {1, 2}, pdgt \in PdgtOutcomes,
     new_res \in LateOutcomes, spec_res \in LateOutcomes :
    LET r == PlanarInterface_from_pdgt(vle, NFine, components, pdgt, new_res, spec_res)
    IN  /\ ret.op = "none"
        /\ planar' = IF r.res.tag = "Ok" THEN r.res.val ELSE planar
        /\ ret' = [op |-> "from_pdgt", components |-> components, pdgt |-> pdgt,
                   res |-> r.res, steps |-> r.steps, pre |-> planar]
        /\ UNCHANGED <<pore, hist, inp>>

NextPdgt == FromPdgt

SpecPdgt == InitPdgt /\ [][NextPdgt]_vars

(***************************************************************************)
(* Claims about the solve orchestration (checked under SpecSolve)          *)
(***************************************************************************)
SolveOps == {"PoreProfile::solve_inplace", "PlanarInterface::solve_inplace"}

\* C1: in every state reachable by solve_inplace and update_bulk calls the
\* two optional scalars of a PoreProfile, and of a PlanarInterface, are both
\* None as long as no solve_inplace has returned success, and they are never
\* one Some and the other None.
C1_ScalarsSetTogether ==
  /\ IsSome(pore.grand_potential) <=> IsSome(pore.interfacial_tension)
  /\ IsSome(planar.surface_tension) <=> IsSome(planar.equimolar_radius)
  /\ ~hist.pore_solved =>
        pore.grand_potential = None /\ pore.interfacial_tension = None
  /\ ~hist.planar_solved =>
        planar.surface_tension = None /\ planar.equimolar_radius = None

\* a pore that was solved and then reset by update_bulk, beside an interface
\* whose solve just succeeded from unset scalars
C1_Witness ==
  /\ hist.pore_solved
  /\ pore.grand_potential = None
  /\ pore.interfacial_tension = None
  /\ ret.op = "PlanarInterface::solve_inplace"
  /\ ret.res.tag = "Ok"
  /\ ret.pre = <<None, None>>
  /\ IsSome(planar.surface_tension)
  /\ IsSome(planar.equimolar_radius)

\* C2: when the solver fails inside solve_inplace, solve_inplace returns
\* that same failure, performs no post-processing step and leaves the
\* optional scalars as they were; the solver step is always the first step.
C2_SolverFailurePropagated ==
  ret.op \in SolveOps =>
    /\ Len(ret.steps) >= 1
    /\ ret.steps[1] = "solve"
    /\ \A k \in 2..Len(ret.steps) : ret.steps[k] # "solve"
    /\ ret.solver.tag = "Err" =>
         /\ ret.res = ret.solver
         /\ ret.steps = <<"solve">>
         /\ ret.op = "PoreProfile::solve_inplace" =>
              <<pore.grand_potential, pore.interfacial_tension>> = ret.pre
         /\ ret.op = "PlanarInterface::solve_inplace" =>
              <<planar.surface_tension, planar.equimolar_radius>> = ret.pre

\* the solver fails on a pore whose scalars an earlier solve had set
C2_Witness ==
  /\ ret.op = "PoreProfile::solve_inplace"
  /\ ret.solver = Err("NotConverged")
  /\ ret.res = Err("NotConverged")
  /\ IsSome(ret.pre[1])
  /\ IsSome(pore.interfacial_tension)

(***************************************************************************)
(* Claims about the interfacial analysis (checked under SpecAnalysis)      *)
(***************************************************************************)
\* C3: a second shift_equimolar_inplace on an already shifted profile whose
\* density was not changed in between leaves the grid coordinates as the
\* first call left them.
C3_ShiftIdempotent ==
  hist.shifts >= 2 => planar.axis.grid = hist.grid_before

\* C9: relative_adsorption never returns a matrix with a non-finite entry
\* (coinciding liquid-side and vapor-side densities of a component are
\* validated, not divided by).
C9_AdsorptionValidated ==
  (ret.op = "relative_adsorption" /\ ret.res.tag = "Ok") =>
     \A i \in DOMAIN ret.res.val : \A j \in DOMAIN ret.res.val :
        IsFinite(ret.res.val[i][j])
(***************************************************************************)
(* Claims about set_density_inplace (checked under SpecSetDensity)         *)
(***************************************************************************)
\* C8: set_density_inplace(X, scale = false) makes the density exactly X
\* when X has the shape of the current density, and otherwise fails hard
\* and leaves the density as it was.
C8_SetDensityReplaces ==
  (ret.op = "set_density_inplace" /\ ~ret.scale) =>
     IF shape(ret.pre) = shape(ret.init)
     THEN ret.res.tag = "Ok" /\ planar.density = ret.init
     ELSE ret.res.tag = "Panic" /\ planar.density = ret.pre

\* an unscaled replacement by an array that differs from the density it
\* replaces, and one refused for its shape
C8_Witness ==
  /\ ret.op = "set_density_inplace"
  /\ ~ret.scale
  /\ ret.res.tag = "Ok"
  /\ ret.pre # ret.init
  /\ planar.density = ret.init
  /\ Len(ret.init) = 2
(***************************************************************************)
(* Claims about interfacial_thickness (checked under SpecThickness)        *)
(***************************************************************************)
StrictlyInside(l) == Gt(l, Zero) /\ Lt(l, One)

RangePanics ==
  {Panic("Upper limit 'l' of interface thickness needs to satisfy 0 < l < 1."),
   Panic("Lower limit 'l' of interface thickness needs to satisfy 0 < l < 1.")}

\* C6: interfacial_thickness fails at its argument-range check whenever one
\* of the two fractions is not strictly inside (0,1), a fraction of exactly
\* 0 or exactly 1 included, whatever the density profile.
C6_RangeChecked ==
  (/\ ret.op = "interfacial_thickness"
   /\ ~(StrictlyInside(ret.limits[1]) /\ StrictlyInside(ret.limits[2])))
    => ret.res \in RangePanics

\* the outcome of a call: the thickness returned, or failure
Outcome(res) == IF res.tag = "Ok" THEN res ELSE Panic("failure")

\* C7: interfacial_thickness((a, b)) and interfacial_thickness((b, a)) have
\* the same outcome on every profile: the same thickness or a failure both.
C7_ThicknessSymmetric ==
  ret.op = "interfacial_thickness" =>
    Outcome(ret.res) =
      Outcome(PlanarInterface_interfacial_thickness(
                planar, <<ret.limits[2], ret.limits[1]>>))

\* a call with the larger fraction first that returned a thickness other
\* than zero
C7_Witness ==
  /\ ret.op = "interfacial_thickness"
  /\ Gt(ret.limits[1], ret.limits[2])
  /\ ret.res.tag = "Ok"
  /\ ret.res.val # Zero
(***************************************************************************)
(* Claims about external_potential_1d (checked under SpecPotential)        *)
(***************************************************************************)
ConfiguredCutoff ==
  IF IsSome(inp.potential_cutoff) THEN inp.potential_cutoff[1]
  ELSE Q(MAX_POTENTIAL, 1)

\* C4: every value of the array external_potential_1d returns is finite and
\* at most the configured cutoff, for every geometry, segment and grid
\* point, whatever raw values the collaborator produced.
C4_PotentialFiniteBelowCutoff ==
  ret.op = "external_potential_1d" =>
    \A i \in DOMAIN ret.res.val : \A k \in DOMAIN ret.res.val[i] :
       /\ IsFinite(ret.res.val[i][k])
       /\ Ge(ConfiguredCutoff, ret.res.val[i][k])

CoarseIsVapor ==
  \A i \in DOMAIN inp.rho_pdgt : \A j \in DOMAIN inp.rho_pdgt[i] :
     inp.rho_pdgt[i][j] = inp.vle.vapor.partial_density[i]

\* C10: interp_symmetric of a coarse profile that equals the vapor density
\* at every coarse sample returns the vapor density at every fine grid
\* point.
C10_ConstantVaporPreserved ==
  (ret.op = "interp_symmetric" /\ CoarseIsVapor) =>
     \A i \in DOMAIN ret.res.val : \A j \in DOMAIN ret.res.val[i] :
        ret.res.val[i][j] = inp.vle.vapor.partial_density[i]

(***************************************************************************)
(* Claims about interp (checked under SpecInterpPoint)                     *)
(***************************************************************************)
\* C11: queried at the coordinate of a coarse sample (the first, an interior
\* or the last one; the reflected coordinate in the reversed mode), interp
\* returns exactly that sample's value, for every segment.
C11_SampleReturned ==
  ret.op = "interp" =>
    LET x_rev == TableCoordinates(inp.x_old, inp.reverse)
        y_rev == TableValues(inp.y_old, inp.reverse)
    IN  \A i \in DOMAIN y_rev : \A j \in DOMAIN inp.x_new : \A k \in DOMAIN x_rev :
          inp.x_new[j] = x_rev[k] => ret.res[i][j] = y_rev[i][k]

(***************************************************************************)
(* Claims about from_pdgt (checked under SpecPdgt)                         *)
(***************************************************************************)
\* the pDGT model came back with a tension, and the tension is not a normal
\* number
TensionNotNormal ==
  /\ ret.op = "from_pdgt"
  /\ ret.components = 1
  /\ ret.pdgt.tag = "Ok"
  /\ ret.pdgt.val.gamma_units
  /\ ~(/\ IsFinite(ret.pdgt.val.gamma_pdgt)
       /\ ret.pdgt.val.gamma_pdgt # Zero
       /\ ret.pdgt.val.gamma_pdgt \notin {Subnormal, Neg(Subnormal)})

\* C12: when the tension the pDGT model returns is NaN, infinite, zero or
\* subnormal, from_pdgt fails with an error that reports that value; the
\* check is made after the pDGT solve, and neither the interface is built
\* nor the interpolation performed (the last interface stays as it was).
C12_TensionChecked ==
  TensionNotNormal =>
    /\ ret.res.tag = "Err"
    /\ ret.res.val = [kind |-> "InvalidState", function |-> "DFTProfile::from_pdgt",
                      variable |-> "gamma_pdgt", value |-> ret.pdgt.val.gamma_pdgt]
    /\ ret.steps = <<"solve_pdgt", "to_reduced", "is_normal">>
    /\ planar = ret.pre

\* a subnormal tension was returned and reported
C12_Witness ==
  /\ TensionNotNormal
  /\ ret.pdgt.val.gamma_pdgt = Subnormal
  /\ ret.res.tag = "Err"
  /\ ret.res.val.value = Subnormal

(***************************************************************************)
(* Claims about set_density_inplace with scaling (checked under            *)
(* SpecSetDensity)                                                         *)
(***************************************************************************)
\* C13: after set_density_inplace(X, scale = true) the density of every
\* segment at the first grid point is the density the profile had there
\* before the call, and likewise at the last grid point.
C13_ScaledBoundariesKept ==
  (ret.op = "set_density_inplace" /\ ret.scale /\ ret.res.tag = "Ok") =>
    \A i \in DOMAIN planar.density :
      LET n == Len(planar.density[i])
      IN  /\ planar.density[i][1] = ret.pre[i][1]
          /\ planar.density[i][n] = ret.pre[i][n]

(***************************************************************************)
(* Claims about the value of interfacial_thickness (checked under          *)
(* SpecThickness)                                                          *)
(***************************************************************************)
\* the total density falls or rises monotonically between two distinct
\* bulk values
MonotoneBetweenBulks ==
  LET rho == sum_axis0(planar.density)
      n == Len(rho)
  IN  /\ rho[1] # rho[n]
      /\ \/ \A k \in 1..(n - 1) : Ge(rho[k], rho[k + 1])
         \/ \A k \in 1..(n - 1) : Ge(rho[k + 1], rho[k])

\* C14: for two fractions strictly inside (0, 1) and a total density that is
\* monotonic between two distinct bulk values, with the denser phase at the
\* first or at the last grid point, interfacial_thickness does not fail and
\* returns a non-negative length.
C14_ThicknessNonNegative ==
  (/\ ret.op = "interfacial_thickness"
   /\ StrictlyInside(ret.limits[1])
   /\ StrictlyInside(ret.limits[2])
   /\ MonotoneBetweenBulks) =>
     ret.res.tag = "Ok" /\ Ge(ret.res.val, Zero)

====
